---------------------------- MODULE Spec2Model ----------------------------
(***************************************************************************)
(* Model of gsflow/utils/mfreadnam.py: parsenamefile (the name-file parser *)
(* that builds the unit registry ext_unit_dict) and getfiletypeunit.       *)
(*                                                                         *)
(* Python strings are modelled as sequences of one-character strings, so   *)
(* that strip, split, upper, lower, replace, int and the os.path functions *)
(* are computed character by character the way the interpreter does.       *)
(*                                                                         *)
(* Spec     one call of parsenamefile on a POSIX host with control_file    *)
(*          None, one step per line of the name file, followed by either a *)
(*          getfiletypeunit lookup or a second parse of the name file      *)
(*          written back from the returned registry.                       *)
(* SpecPath lines 156-176 on one path token, on a POSIX and on a Windows   *)
(*          host.                                                          *)
(*                                                                         *)
(* verbose only selects what is printed and is left out.                   *)
(***************************************************************************)
EXTENDS Integers, Sequences, FiniteSets, TLC

VARIABLES
    host,           \* flavour of os.path: "posix" or "nt"
    model_ws,       \* parsenamefile argument model_ws
    packages,       \* parsenamefile argument packages: lower-case type -> reservedunit()
    fs,             \* the file system: directory (component list) -> os.listdir order
    namExists,      \* os.path.isfile(namfilename)
    lines,          \* fp.readlines() of the name file
    pass,           \* 1: first parse, 2: parse of the re-derived name file
    ln,             \* number of lines the loop has consumed
    ext_unit_dict,  \* the dict under construction, as its iteration order
    pc,             \* position of the call
    err,            \* exception that ended the call
    errln,          \* line number cited in the exception message
    handles,        \* every file object open() returned, with name and mode
    closed,         \* file objects closed (by the parser or by the finaliser)
    first,          \* the registry the first parse returned
    found,          \* result of the last getfiletypeunit call
    token,          \* path normalisation: the path token under normalisation
    fpath,          \* path normalisation: local variable fpath
    raw,            \* path normalisation: local variable raw
    fname           \* path normalisation: local variable fname

vars == <<host, model_ws, packages, fs, namExists, lines, pass, ln,
          ext_unit_dict, pc, err, errln, handles, closed, first, found,
          token, fpath, raw, fname>>

-----------------------------------------------------------------------------
(* Bounds of the model. *)

MaxLines == 3
MaxTokLen == 3

-----------------------------------------------------------------------------
(* Python str methods. *)

LowerLetters == <<"a","b","c","d","e","f","g","h","i","j","k","l","m",
                  "n","o","p","q","r","s","t","u","v","w","x","y","z">>
UpperLetters == <<"A","B","C","D","E","F","G","H","I","J","K","L","M",
                  "N","O","P","Q","R","S","T","U","V","W","X","Y","Z">>

Whitespace == {" ", "\t", "\n", "\r"}

CharLower(c) ==
    IF \E i \in DOMAIN UpperLetters : UpperLetters[i] = c
    THEN LowerLetters[CHOOSE i \in DOMAIN UpperLetters : UpperLetters[i] = c]
    ELSE c

CharUpper(c) ==
    IF \E i \in DOMAIN LowerLetters : LowerLetters[i] = c
    THEN UpperLetters[CHOOSE i \in DOMAIN LowerLetters : LowerLetters[i] = c]
    ELSE c

StrLower(s) == [i \in 1..Len(s) |-> CharLower(s[i])]

StrUpper(s) == [i \in 1..Len(s) |-> CharUpper(s[i])]

Contains(s, c) == \E i \in 1..Len(s) : s[i] = c

RECURSIVE LStrip(_)
LStrip(s) ==
    IF s # <<>> /\ Head(s) \in Whitespace THEN LStrip(Tail(s)) ELSE s

RECURSIVE RStrip(_)
RStrip(s) ==
    IF s # <<>> /\ s[Len(s)] \in Whitespace
    THEN RStrip(SubSeq(s, 1, Len(s) - 1))
    ELSE s

Strip(s) == RStrip(LStrip(s))

(* s.replace(c, ""), c a single character *)
RemoveAll(s, c) == SelectSeq(s, LAMBDA x : x # c)

(* s.split(c): every segment, the empty ones included; acc holds the     *)
(* finished segments and cur the one being read                          *)
RECURSIVE SplitFrom(_, _, _, _, _)
SplitFrom(s, c, i, acc, cur) ==
    IF i > Len(s) THEN Append(acc, cur)
    ELSE IF s[i] = c THEN SplitFrom(s, c, i + 1, Append(acc, cur), <<>>)
    ELSE SplitFrom(s, c, i + 1, acc, Append(cur, s[i]))

SplitOn(s, c) == SplitFrom(s, c, 1, <<>>, <<>>)

(* s.split(): split on runs of whitespace, no empty items *)
RECURSIVE SplitWsFrom(_, _, _, _)
SplitWsFrom(s, i, acc, cur) ==
    IF i > Len(s) THEN (IF cur = <<>> THEN acc ELSE Append(acc, cur))
    ELSE IF s[i] \in Whitespace
         THEN SplitWsFrom(s, i + 1, IF cur = <<>> THEN acc ELSE Append(acc, cur), <<>>)
    ELSE SplitWsFrom(s, i + 1, acc, Append(cur, s[i]))

SplitWs(s) == SplitWsFrom(s, 1, <<>>, <<>>)

Digits == <<"0","1","2","3","4","5","6","7","8","9">>

IsDigit(c) == \E i \in DOMAIN Digits : Digits[i] = c

DigitVal(c) == (CHOOSE i \in DOMAIN Digits : Digits[i] = c) - 1

RECURSIVE DigitsVal(_)
DigitsVal(s) ==
    IF s = <<>> THEN 0
    ELSE 10 * DigitsVal(SubSeq(s, 1, Len(s) - 1)) + DigitVal(s[Len(s)])

Unsigned(s) == IF s # <<>> /\ Head(s) \in {"+", "-"} THEN Tail(s) ELSE s

(* int(s) succeeds: an optional sign, then one or more decimal digits *)
IsInt(s) ==
    /\ Unsigned(s) # <<>>
    /\ \A i \in 1..Len(Unsigned(s)) : IsDigit(Unsigned(s)[i])

IntOf(s) ==
    IF Head(s) = "-" THEN 0 - DigitsVal(Unsigned(s)) ELSE DigitsVal(Unsigned(s))

-----------------------------------------------------------------------------
(* os.path, for paths without a drive letter or UNC prefix. *)

Seps(h) == IF h = "nt" THEN {"\\", "/"} ELSE {"/"}

NativeSep(h) == IF h = "nt" THEN "\\" ELSE "/"

(* os.path.join(a, b) *)
Join2(h, a, b) ==
    IF b # <<>> /\ b[1] \in Seps(h) THEN b
    ELSE IF a = <<>> \/ a[Len(a)] \in Seps(h) THEN a \o b
    ELSE a \o <<NativeSep(h)>> \o b

(* os.path.join applied to the list segs *)
RECURSIVE JoinAll(_, _)
JoinAll(h, segs) ==
    IF Len(segs) = 1 THEN segs[1]
    ELSE Join2(h, JoinAll(h, SubSeq(segs, 1, Len(segs) - 1)), segs[Len(segs)])

(* lines 160-163: remove quotes in file path *)
StripQuotes(p) == RemoveAll(RemoveAll(p, "\""), "'")

(* lines 166-171: split on "/" if present, else on "\" if present *)
RawSegments(p) ==
    IF Contains(p, "/") THEN SplitOn(p, "/")
    ELSE IF Contains(p, "\\") THEN SplitOn(p, "\\")
    ELSE <<p>>

(* lines 160-172: the path token made system agnostic *)
NormPath(h, tok) == JoinAll(h, RawSegments(StripQuotes(tok)))

(* line 176: fname when control_file is None *)
WsPath(h, ws, tok) == Join2(h, ws, NormPath(h, tok))

-----------------------------------------------------------------------------
(* The file system seen through os.path.isfile, os.listdir and open.  The  *)
(* file-system part is modelled for a POSIX host (case-sensitive names,    *)
(* the configuration the fallback of lines 181-189 is written for).        *)

NonEmptySeg(x) == x # <<>> /\ x # <<".">>

(* the directory components a path walks through, "." and "" dropped *)
Components(p) == SelectSeq(SplitOn(p, "/"), NonEmptySeg)

(* the path names a directory if it names anything: "d/", "d/." *)
EndsAsDir(p) ==
    \/ p[Len(p)] = "/"
    \/ SplitOn(p, "/")[Len(SplitOn(p, "/"))] = <<".">>

KindIn(listing, name) ==
    IF \E i \in 1..Len(listing) : listing[i].name = name
    THEN listing[CHOOSE i \in 1..Len(listing) : listing[i].name = name].kind
    ELSE "none"

(* "file", "locked" (a file open() is denied), "dir" or "none" *)
EntryKind(p) ==
    IF p = <<>> THEN "none"
    ELSE LET cs == Components(p) IN
         IF cs = <<>> THEN "dir"
         ELSE LET parent == SubSeq(cs, 1, Len(cs) - 1)
                  k == IF parent \in DOMAIN fs
                       THEN KindIn(fs[parent], cs[Len(cs)])
                       ELSE "none"
              IN  IF k \in {"file", "locked"} /\ EndsAsDir(p) THEN "none" ELSE k

(* os.path.isfile *)
IsFile(p) == EntryKind(p) \in {"file", "locked"}

(* open(p, mode) returns a file object; otherwise it raises IOError *)
CanOpen(p) == EntryKind(p) = "file"

(* os.listdir(dn) returns; otherwise it raises OSError *)
CanList(dn) == EntryKind(dn) = "dir"

ListDir(dn) == [i \in 1..Len(fs[Components(dn)]) |-> fs[Components(dn)][i].name]

LastSep(p) ==
    IF Contains(p, "/")
    THEN CHOOSE k \in 1..Len(p) : p[k] = "/" /\ \A j \in (k + 1)..Len(p) : p[j] # "/"
    ELSE 0

RECURSIVE RStripSep(_)
RStripSep(p) ==
    IF p # <<>> /\ p[Len(p)] = "/" THEN RStripSep(SubSeq(p, 1, Len(p) - 1)) ELSE p

(* os.path.dirname *)
Dirname(p) ==
    LET head == SubSeq(p, 1, LastSep(p)) IN
    IF RStripSep(head) # <<>> THEN RStripSep(head) ELSE head

(* os.path.basename *)
Basename(p) == SubSeq(p, LastSep(p) + 1, Len(p))

-----------------------------------------------------------------------------
(* Registry keys: a unit number or, for unit 0 of an unknown type, the     *)
(* file type.  Both kinds are carried in one record shape.                 *)

IntKey(n) == [isInt |-> TRUE, n |-> n, s |-> <<>>]

StrKey(s) == [isInt |-> FALSE, n |-> 0, s |-> s]

(* seeded fault: the last position of x instead of the first *)
IndexLast(seq, x) ==
    CHOOSE i \in 1..Len(seq) : seq[i] = x /\ \A j \in (i + 1)..Len(seq) : seq[j] # x

(* list.index(x): the first position of x *)
Index(seq, x) ==
    CHOOSE i \in 1..Len(seq) : seq[i] = x /\ \A j \in 1..(i - 1) : seq[j] # x

-----------------------------------------------------------------------------
(* The body of the loop of parsenamefile, for one line of the name file.   *)

Stripped(line) == Strip(line)

IsBlankOrComment(line) ==
    IF Len(Stripped(line)) = 0 THEN TRUE ELSE Stripped(line)[1] = "#"

Items(line) == SplitWs(Stripped(line))

Ftype(line) == StrUpper(Items(line)[1])

(* fname of line 176 (control_file is None) *)
ResolvedName(line) == WsPath(host, model_ws, Items(line)[3])

(* line 181: the directory is listed when fname is not an existing file *)
NeedsListing(fn) == ~IsFile(fn)

(* lines 181-189: change to lower and make comparison *)
CaseFallback(fn) ==
    IF ~NeedsListing(fn) THEN fn
    ELSE LET dn      == Dirname(fn)
             fls     == ListDir(dn)
             lownams == [i \in 1..Len(fls) |-> StrLower(fls[i])]
             bname   == Basename(fn)
         IN  IF \E i \in 1..Len(lownams) : lownams[i] = StrLower(bname)
             THEN Join2(host, dn, fls[Index(lownams, StrLower(bname))])
             ELSE fn

(* lines 191-193 *)
OpenMode(ftype) ==
    IF ftype = <<"D","A","T","A","(","B","I","N","A","R","Y",")">> THEN "rb" ELSE "r"

(* seeded fault: the package registry is searched with the upper-case type *)
ResolveKeyNoLower(keyTok, ftype) ==
    IF IntOf(keyTok) # 0 THEN IntKey(IntOf(keyTok))
    ELSE IF ftype \in DOMAIN packages
         THEN IntKey(packages[ftype])
         ELSE StrKey(ftype)

(* lines 201-217 once int(key) has succeeded *)
ResolveKey(keyTok, ftype) ==
    IF IntOf(keyTok) # 0 THEN IntKey(IntOf(keyTok))
    ELSE IF StrLower(ftype) \in DOMAIN packages
         THEN IntKey(packages[StrLower(ftype)])
         ELSE StrKey(ftype)

(* NamData(pkgtype, name, handle, packages); srcLine records the line of   *)
(* the name file the instance was built from.                              *)
NamData(key, pkgtype, name, handle, n) ==
    [key |-> key, filetype |-> pkgtype, filename |-> name, filehandle |-> handle,
     package |-> StrLower(pkgtype) \in DOMAIN packages, srcLine |-> n]

HasKey(d, k) == \E i \in 1..Len(d) : d[i].key = k

(* seeded fault: an existing key is kept (dict.setdefault) *)
DictSetKeepFirst(d, e) == IF HasKey(d, e.key) THEN d ELSE Append(d, e)

(* seeded fault: an overwritten key moves to the end of the iteration order *)
DictSetMoveToEnd(d, e) == Append(SelectSeq(d, LAMBDA x : x.key # e.key), e)

(* ext_unit_dict[key] = value on an insertion-ordered dict *)
DictSet(d, e) ==
    IF HasKey(d, e.key)
    THEN [d EXCEPT ![CHOOSE i \in 1..Len(d) : d[i].key = e.key] = e]
    ELSE Append(d, e)

(* the file object a dict assignment leaves without a referrer (0: none) *)
Dropped(d, e) ==
    IF HasKey(d, e.key)
    THEN d[CHOOSE i \in 1..Len(d) : d[i].key = e.key].filehandle
    ELSE 0

(* getfiletypeunit(nf, filetype) *)
NoUnit == [hit |-> FALSE, key |-> IntKey(0)]

(* seeded fault: the scan keeps going and returns the last match *)
getfiletypeunitLast(nf, filetype) ==
    IF \E i \in 1..Len(nf) : StrLower(nf[i].filetype) = StrLower(filetype)
    THEN [hit |-> TRUE,
          key |-> nf[CHOOSE i \in 1..Len(nf) :
                        /\ StrLower(nf[i].filetype) = StrLower(filetype)
                        /\ \A j \in (i + 1)..Len(nf) :
                              StrLower(nf[j].filetype) # StrLower(filetype)].key]
    ELSE NoUnit

getfiletypeunit(nf, filetype) ==
    IF \E i \in 1..Len(nf) : StrLower(nf[i].filetype) = StrLower(filetype)
    THEN [hit |-> TRUE,
          key |-> nf[CHOOSE i \in 1..Len(nf) :
                        /\ StrLower(nf[i].filetype) = StrLower(filetype)
                        /\ \A j \in 1..(i - 1) :
                              StrLower(nf[j].filetype) # StrLower(filetype)].key]
    ELSE NoUnit

-----------------------------------------------------------------------------
(* Inputs: name-file lines, file systems and package registries.           *)

Line2(a, b) == a \o <<" ">> \o b \o <<"\n">>

Line3(a, b, c) == a \o <<" ">> \o b \o <<"\t">> \o c \o <<"\n">>

T_WEL == <<"W","E","L">>
T_wel == <<"w","e","l">>
T_DRN == <<"D","R","N">>
T_drn == <<"d","r","n">>
T_BIN == <<"D","A","T","A","(","B","I","N","A","R","Y",")">>

LinePool ==
    { <<" ", "\n">>,                                        \* blank
      <<" ", "#", "c", "\n">>,                              \* comment
      Line3(T_WEL, <<"1","1">>, <<"a","b">>),
      Line3(T_wel, <<"1","2">>, <<"A","b">>),
      Line3(T_DRN, <<"1","1">>, <<"g", " ", "x">>),         \* extra token
      Line3(T_WEL, <<"0">>, <<"p">>),                       \* open() denied
      Line3(T_BIN, <<"0">>, <<"\"","d","/","H","\"">>),
      Line2(T_DRN, <<"5">>),                                \* two items
      Line3(T_drn, <<"x">>, <<"n","/","r">>),               \* unit not an integer
      Line3(T_DRN, <<"1","2">>, <<"n","\\","r">>) }         \* no directory n

Manifests == UNION { [1..n -> LinePool] : n \in 0..MaxLines }

File(nm) == [name |-> nm, kind |-> "file"]

Dir(nm) == [name |-> nm, kind |-> "dir"]

Locked(nm) == [name |-> nm, kind |-> "locked"]

ListingA == << File(<<"A","B">>), File(<<"a","b">>), File(<<"G">>),
               Dir(<<"d">>), Locked(<<"p">>) >>

ListingB == << File(<<"a","b">>), File(<<"A","B">>), File(<<"G">>),
               Dir(<<"d">>), Dir(<<"n">>) >>

(* the tree below the working directory: the workspace holds `listing`,    *)
(* its directory d the file h, and its directory n, if any, the file r     *)
Tree(ws, listing) ==
    LET root == IF ws = <<".">> THEN <<>> ELSE <<ws>>
        top  == IF ws = <<".">> THEN <<>> :> listing
                ELSE (<<>> :> << Dir(ws) >>) @@ (root :> listing)
        subN == IF KindIn(listing, <<"n">>) = "dir"
                THEN (root \o << <<"n">> >>) :> << File(<<"r">>) >>
                ELSE [x \in {} |-> <<>>]
    IN  top @@ ((root \o << <<"d">> >>) :> << File(<<"h">>) >>) @@ subN

NoPackages == [x \in {} |-> 0]

Scenarios ==
    { [ws |-> <<".">>, fs |-> Tree(<<".">>, ListingA), pk |-> NoPackages],
      [ws |-> <<"w">>, fs |-> Tree(<<"w">>, ListingB),
       pk |-> (T_wel :> 11) @@ (T_drn :> 12)] }

LookupTypes == { T_wel, T_DRN }

NotCalled == [called |-> FALSE, arg |-> <<>>, res |-> NoUnit]

-----------------------------------------------------------------------------
(* parsenamefile *)

Init ==
    /\ host = "posix"
    /\ \E sc \in Scenarios :
          model_ws = sc.ws /\ fs = sc.fs /\ packages = sc.pk
    /\ \/ namExists = FALSE /\ lines = <<>>
       \/ namExists = TRUE /\ lines \in Manifests
    /\ pass = 1
    /\ ln = 0
    /\ ext_unit_dict = <<>>
    /\ pc = "start"
    /\ err = "none"
    /\ errln = 0
    /\ handles = {}
    /\ closed = {}
    /\ first = <<>>
    /\ found = NotCalled
    /\ token = <<>>
    /\ fpath = <<>>
    /\ raw = <<>>
    /\ fname = <<>>

envVars == <<host, model_ws, packages, fs, namExists>>

pathVars == <<token, fpath, raw, fname>>

(* lines 135-141: the name file does not exist *)
RaiseNoNamefile ==
    /\ pc = "start"
    /\ ~namExists
    /\ pc' = "raised"
    /\ err' = "IOError"
    /\ UNCHANGED <<envVars, pathVars, lines, pass, ln, ext_unit_dict, errln,
                   handles, closed, first, found>>

(* lines 142-143: the whole file is read before the loop starts *)
ReadLines ==
    /\ pc = "start"
    /\ namExists
    /\ pc' = "loop"
    /\ UNCHANGED <<envVars, pathVars, lines, pass, ln, ext_unit_dict, err, errln,
                   handles, closed, first, found>>

Current == lines[ln + 1]

InLoop == pc = "loop" /\ ln < Len(lines)

(* the file object of lines 194-199, or 0 for None *)
NewHandle(fn) == IF CanOpen(fn) THEN Cardinality(handles) + 1 ELSE 0

Opened(fn, ftype) ==
    IF CanOpen(fn)
    THEN handles \cup {[id |-> NewHandle(fn), name |-> fn, mode |-> OpenMode(ftype)]}
    ELSE handles

(* lines 146-149: skip blank lines or comments *)
SkipLine ==
    /\ InLoop
    /\ IsBlankOrComment(Current)
    /\ ln' = ln + 1
    /\ UNCHANGED <<envVars, pathVars, lines, pass, ext_unit_dict, pc, err, errln,
                   handles, closed, first, found>>

(* lines 152-155: fewer than three items *)
RaiseTooFew ==
    /\ InLoop
    /\ ~IsBlankOrComment(Current)
    /\ Len(Items(Current)) < 3
    /\ pc' = "raised"
    /\ err' = "ValueError"
    /\ errln' = ln + 1
    /\ ln' = ln + 1
    /\ UNCHANGED <<envVars, pathVars, lines, pass, ext_unit_dict,
                   handles, closed, first, found>>

(* line 184: os.listdir raises, nothing catches it *)
RaiseListdir ==
    /\ InLoop
    /\ ~IsBlankOrComment(Current)
    /\ Len(Items(Current)) >= 3
    /\ NeedsListing(ResolvedName(Current))
    /\ ~CanList(Dirname(ResolvedName(Current)))
    /\ pc' = "raised"
    /\ err' = "OSError"
    /\ ln' = ln + 1
    /\ UNCHANGED <<envVars, pathVars, lines, pass, ext_unit_dict, errln,
                   handles, closed, first, found>>

Listable(line) ==
    NeedsListing(ResolvedName(line)) => CanList(Dirname(ResolvedName(line)))

(* lines 201-207: the file has been opened, then int(key) raises; the file *)
(* object is left to the finaliser, which may or may not have run          *)
RaiseNotInt ==
    /\ InLoop
    /\ ~IsBlankOrComment(Current)
    /\ Len(Items(Current)) >= 3
    /\ Listable(Current)
    /\ ~IsInt(Items(Current)[2])
    /\ LET fn == CaseFallback(ResolvedName(Current)) IN
       /\ handles' = Opened(fn, Ftype(Current))
       /\ \E fin \in BOOLEAN :
             closed' = IF fin /\ CanOpen(fn)
                       THEN closed \cup {NewHandle(fn)} ELSE closed
    /\ pc' = "raised"
    /\ err' = "ValueError"
    /\ errln' = ln + 1
    /\ ln' = ln + 1
    /\ UNCHANGED <<envVars, pathVars, lines, pass, ext_unit_dict, first, found>>

(* lines 156-218 for a line that raises nothing *)
InsertEntry ==
    /\ InLoop
    /\ ~IsBlankOrComment(Current)
    /\ Len(Items(Current)) >= 3
    /\ Listable(Current)
    /\ IsInt(Items(Current)[2])
    /\ LET fn == CaseFallback(ResolvedName(Current))
           e  == NamData(ResolveKey(Items(Current)[2], Ftype(Current)),
                         Ftype(Current), fn, NewHandle(fn), ln + 1)
       IN  /\ handles' = Opened(fn, Ftype(Current))
           /\ ext_unit_dict' = DictSet(ext_unit_dict, e)
           /\ \E fin \in BOOLEAN :
                 closed' = IF fin /\ Dropped(ext_unit_dict, e) # 0
                           THEN closed \cup {Dropped(ext_unit_dict, e)}
                           ELSE closed
    /\ ln' = ln + 1
    /\ UNCHANGED <<envVars, pathVars, lines, pass, pc, err, errln, first, found>>

(* line 219 *)
Return ==
    /\ pc = "loop"
    /\ ln = Len(lines)
    /\ pc' = "returned"
    /\ UNCHANGED <<envVars, pathVars, lines, pass, ln, ext_unit_dict, err, errln,
                   handles, closed, first, found>>

(* a caller looks a file type up in the returned registry *)
Lookup ==
    /\ pc = "returned"
    /\ pass = 1
    /\ ~found.called
    /\ \E ft \in LookupTypes :
          found' = [called |-> TRUE, arg |-> ft,
                    res |-> getfiletypeunit(ext_unit_dict, ft)]
    /\ UNCHANGED <<envVars, pathVars, lines, pass, ln, ext_unit_dict, pc, err,
                   errln, handles, closed, first>>

RECURSIVE NatToStr(_)
NatToStr(n) ==
    IF n < 10 THEN <<Digits[n + 1]>>
    ELSE NatToStr(n \div 10) \o <<Digits[(n % 10) + 1]>>

(* str(key) *)
KeyStr(k) ==
    IF ~k.isInt THEN k.s
    ELSE IF k.n < 0 THEN <<"-">> \o NatToStr(0 - k.n) ELSE NatToStr(k.n)

(* the name file written back from a registry: "<filetype> <key> <path>" *)
Rederived(d) ==
    [i \in 1..Len(d) |->
        d[i].filetype \o <<" ">> \o KeyStr(d[i].key) \o <<" ">> \o d[i].filename
        \o <<"\n">>]

(* the registry is written back as a name file, which is parsed again with *)
(* the same arguments                                                      *)
Reparse ==
    /\ pc = "returned"
    /\ pass = 1
    /\ pass' = 2
    /\ first' = ext_unit_dict
    /\ lines' = Rederived(ext_unit_dict)
    /\ ext_unit_dict' = <<>>
    /\ ln' = 0
    /\ pc' = "loop"
    /\ found' = NotCalled
    /\ UNCHANGED <<envVars, pathVars, err, errln, handles, closed>>

Next ==
    \/ RaiseNoNamefile
    \/ ReadLines
    \/ SkipLine
    \/ RaiseTooFew
    \/ RaiseListdir
    \/ RaiseNotInt
    \/ InsertEntry
    \/ Return
    \/ Lookup
    \/ Reparse

Spec == Init /\ [][Next]_vars

-----------------------------------------------------------------------------
(* Lines 156-176 step by step, for one path token on either host, with     *)
(* control_file None.                                                      *)

PathChars == {"a", "b", "/", "\\", "\"", "'"}

(* a token that begins with two backslashes is a UNC prefix: left out *)
PathTokens ==
    { t \in UNION { [1..n -> PathChars] : n \in 1..MaxTokLen } :
        ~(Len(t) >= 2 /\ t[1] = "\\" /\ t[2] = "\\") }

PathInit ==
    /\ host \in {"posix", "nt"}
    /\ model_ws \in { <<".">>, <<"w">> }
    /\ token \in PathTokens
    /\ fpath = token
    /\ raw = <<>>
    /\ fname = <<>>
    /\ pc = "quotes"
    /\ packages = NoPackages
    /\ fs = Tree(<<".">>, ListingA)
    /\ namExists = TRUE
    /\ lines = <<>>
    /\ pass = 1
    /\ ln = 0
    /\ ext_unit_dict = <<>>
    /\ err = "none"
    /\ errln = 0
    /\ handles = {}
    /\ closed = {}
    /\ first = <<>>
    /\ found = NotCalled

parseVars == <<packages, fs, namExists, lines, pass, ln, ext_unit_dict, err,
               errln, handles, closed, first, found>>

(* lines 160-163 *)
RemoveQuotes ==
    /\ pc = "quotes"
    /\ fpath' = StripQuotes(fpath)
    /\ pc' = "split"
    /\ UNCHANGED <<parseVars, host, model_ws, token, raw, fname>>

(* lines 166-171 *)
SplitPath ==
    /\ pc = "split"
    /\ raw' = RawSegments(fpath)
    /\ pc' = "join"
    /\ UNCHANGED <<parseVars, host, model_ws, token, fpath, fname>>

(* line 172 *)
JoinRaw ==
    /\ pc = "join"
    /\ fpath' = JoinAll(host, raw)
    /\ pc' = "workspace"
    /\ UNCHANGED <<parseVars, host, model_ws, token, raw, fname>>

(* lines 175-176 *)
JoinWorkspace ==
    /\ pc = "workspace"
    /\ fname' = Join2(host, model_ws, fpath)
    /\ pc' = "resolved"
    /\ UNCHANGED <<parseVars, host, model_ws, token, fpath, raw>>

PathNext == RemoveQuotes \/ SplitPath \/ JoinRaw \/ JoinWorkspace

SpecPath == PathInit /\ [][PathNext]_vars

-----------------------------------------------------------------------------
(* Properties.                                                             *)

D == ext_unit_dict

SrcOf(i) == lines[D[i].srcLine]

DataLine(j) == ~IsBlankOrComment(lines[j])

DataLines == { j \in 1..Len(lines) : DataLine(j) }

WellFormed(line) == Len(Items(line)) >= 3 /\ IsInt(Items(line)[2])

(* the key a well-formed line is to be stored under, from its first two    *)
(* items alone                                                             *)
KeyOfLine(line) ==
    LET unit == IntOf(Items(line)[2])
        ft   == Items(line)[1]
    IN  IF unit # 0 THEN IntKey(unit)
        ELSE IF \E t \in DOMAIN packages : t = StrLower(ft)
             THEN IntKey(packages[StrLower(ft)])
             ELSE StrKey(StrUpper(ft))

C2_LastWriteWins ==
    pc = "returned" =>
        LET K == [j \in DataLines |-> KeyOfLine(lines[j])]
            Repeats == { j \in DataLines : \E m \in DataLines : m < j /\ K[m] = K[j] }
        IN  /\ \A i, j \in 1..Len(D) : D[i].key = D[j].key => i = j
            /\ \A j \in DataLines : HasKey(D, K[j])
            /\ \A i \in 1..Len(D) :
                  /\ D[i].srcLine \in DataLines
                  /\ K[D[i].srcLine] = D[i].key
                  /\ \A m \in DataLines : K[m] = D[i].key => m <= D[i].srcLine
                  /\ D[i].filetype = StrUpper(Items(SrcOf(i))[1])
                  /\ D[i].filename = CaseFallback(ResolvedName(SrcOf(i)))
            /\ Len(D) = Cardinality(DataLines) - Cardinality(Repeats)

C2_Witness ==
    /\ pc = "returned" /\ pass = 1
    /\ Len(D) < Cardinality(DataLines)
    /\ \E j, m \in DataLines :
          /\ j < m
          /\ Items(lines[j])[2] = <<"1","1">>
          /\ Items(lines[m])[2] = <<"0">>
          /\ \E i \in 1..Len(D) : D[i].srcLine = m /\ D[i].key = IntKey(11)

StructuralError(j) ==
    DataLine(j) /\ (Len(Items(lines[j])) < 3 \/ ~IsInt(Items(lines[j])[2]))

(* C3: the first data line with fewer than three items or a non-integer    *)
(* unit ends the parse with a ValueError that cites its line number, and   *)
(* a ValueError is raised by data lines only.                              *)
C3_StructuralErrors ==
    /\ \A j \in 1..ln :
          StructuralError(j) =>
              pc = "raised" /\ err = "ValueError" /\ errln = j /\ j = ln
    /\ (pc = "raised" /\ err = "ValueError") => StructuralError(ln)

(* C4: a well-formed data line never ends the parse; once consumed its     *)
(* entry is in the registry, with no file handle when the file cannot be   *)
(* opened.                                                                 *)
C4_OpenFailureTolerated ==
    (ln >= 1 /\ DataLine(ln) /\ WellFormed(lines[ln])) =>
        /\ pc # "raised"
        /\ \E i \in 1..Len(D) :
              /\ D[i].srcLine = ln
              /\ ~CanOpen(D[i].filename) => D[i].filehandle = 0

TypeMatch(i, ft) == StrLower(D[i].filetype) = StrLower(ft)

(* C5: a lookup returns the key of the first entry, in iteration order,    *)
(* whose file type equals the requested one ignoring case, None when there *)
(* is none, and leaves the registry as it was.                             *)
C5_FirstMatch ==
    [][ (~found.called /\ found'.called) =>
          /\ ext_unit_dict' = ext_unit_dict
          /\ IF \E i \in 1..Len(D) : TypeMatch(i, found'.arg)
             THEN \E i \in 1..Len(D) :
                     /\ TypeMatch(i, found'.arg)
                     /\ \A j \in 1..(i - 1) : ~TypeMatch(j, found'.arg)
                     /\ found'.res = [hit |-> TRUE, key |-> D[i].key]
             ELSE found'.res = NoUnit ]_vars

C5_Witness ==
    /\ found.called /\ found.arg = T_wel
    /\ found.res = [hit |-> TRUE, key |-> IntKey(11)]
    /\ \E i, j \in 1..Len(D) :
          /\ i < j
          /\ D[i].filetype = T_WEL /\ D[i].key = IntKey(11)
          /\ D[j].filetype = T_WEL /\ D[j].key = IntKey(12)

(* the components of a path: what lies between separators of the host *)
RECURSIVE Pieces(_, _)
Pieces(h, p) ==
    IF p = <<>> THEN <<>>
    ELSE IF p[1] \in Seps(h) THEN Pieces(h, Tail(p))
    ELSE LET n == IF \E k \in 1..Len(p) : p[k] \in Seps(h)
                  THEN CHOOSE k \in 1..Len(p) :
                          p[k] \in Seps(h) /\ \A j \in 1..(k - 1) : p[j] \notin Seps(h)
                  ELSE Len(p) + 1
         IN  <<SubSeq(p, 1, n - 1)>> \o Pieces(h, SubSeq(p, n, Len(p)))

RECURSIVE PiecesOfAll(_, _)
PiecesOfAll(h, segs) ==
    IF segs = <<>> THEN <<>>
    ELSE Pieces(h, Head(segs)) \o PiecesOfAll(h, Tail(segs))

(* C6: the resolved path is the workspace followed by every segment of the *)
(* token, in order; none is lost.                                          *)
C6_AllSegmentsKept ==
    pc = "resolved" =>
        Pieces(host, fname) = Pieces(host, model_ws) \o PiecesOfAll(host, raw)

Inserted ==
    { j \in 1..ln : DataLine(j) /\ ~(pc = "raised" /\ j = ln) }

SameKeysAndTypes(a, b) ==
    /\ Len(a) = Len(b)
    /\ \A i \in 1..Len(a) : a[i].key = b[i].key /\ a[i].filetype = b[i].filetype

(* C8: the name file written back from a returned registry parses, and     *)
(* yields the same keys with the same file types in the same order.        *)
C8_RoundTrip ==
    (pass = 2 /\ pc \in {"returned", "raised"}) =>
        pc = "returned" /\ SameKeysAndTypes(D, first)

(* positions of the entries of listing fls that equal bname ignoring case *)
Matches(fls, bname) ==
    { i \in 1..Len(fls) : StrLower(fls[i]) = StrLower(bname) }

C10_HandlesKept ==
    (pc = "returned" /\ pass = 1) =>
        \A h \in handles :
            /\ h.id \notin closed
            /\ \E i \in 1..Len(D) : D[i].filehandle = h.id

=============================================================================
